---------------------------- MODULE Spec2Model ----------------------------
(***************************************************************************)
(* Model of the live-update distribution subsystem of logo-png:            *)
(*   - the update thread (main.rs loop + logo.rs update_logo),             *)
(*   - the logo cache LOGO_CACHE and its RwLock,                           *)
(*   - the websocket listener registry LISTENERS (live.rs),                *)
(*   - the renderer get_logo_png / get_logo_data / write_character,        *)
(*   - the history insert db::save_logo.                                   *)
(* Strings are sequences of one-character strings, a LogoResponse is the   *)
(* nested sequence Vec<Vec<Vec<String>>> itself.                           *)
(* Spec is the whole system; SpecLive leaves the /logo.png requests out,   *)
(* SpecCache the websocket connections, SpecRegistry has the connections   *)
(* alone.  Requests touch only the cache lock and connections only the     *)
(* registry, so each property is checked where its variables can change.   *)
(***************************************************************************)
EXTENDS Integers, Sequences, FiniteSets, TLC

(* ------------------------------ bounds -------------------------------- *)
MaxChanges == 2
MaxConns == 2
MaxListeners == 4
MaxScale == 2

(* ------------------------- program constants -------------------------- *)
FIRST_LISTENER_ID == 1
LOGO_WIDTH == 152
LOGO_HEIGHT == 32
GRAY == 155
OPAQUE == 255

(* --------------------------- descriptions ----------------------------- *)
TokRed == <<"#", "f", "f", "0", "0", "0", "0">>
TokBadHex == <<"#", "g", "g", "0", "0", "0", "0">>

EmptyLogo == <<>>
DRed == << << <<TokRed>> >> >>
DBad == << << <<TokBadHex>> >> >>
FetchSet == {EmptyLogo, DRed, DBad}

(* ------------------------------ renderer ------------------------------ *)
Coords ==
  << << <<0, 0>>, <<0, 16>>, <<0, 24>>, <<0, 32>> >>,
     << <<8, 0>>, <<8, 8>>, <<16, 8>>, <<8, 16>>, <<8, 24>>, <<16, 24>>, <<24, 24>> >>,
     << <<32, 8>>, <<40, 8>>, <<48, 8>>, <<32, 16>>, <<48, 16>>, <<32, 24>>, <<40, 24>>, <<48, 24>> >>,
     << <<56, 8>>, <<64, 8>>, <<72, 8>>, <<56, 16>>, <<56, 24>> >>,
     << <<88, 8>>, <<96, 8>>, <<80, 16>>, <<96, 16>>, <<80, 24>>, <<88, 24>>, <<96, 24>> >>,
     << <<104, 0>>, <<104, 8>>, <<112, 8>>, <<104, 16>>, <<104, 24>>, <<112, 24>>, <<120, 24>> >>,
     << <<128, 8>>, <<136, 8>>, <<144, 8>>, <<128, 16>>, <<144, 16>>, <<128, 24>>, <<136, 24>> >> >>

HexLower == <<"0", "1", "2", "3", "4", "5", "6", "7", "8", "9", "a", "b", "c", "d", "e", "f">>
HexUpper == <<"0", "1", "2", "3", "4", "5", "6", "7", "8", "9", "A", "B", "C", "D", "E", "F">>

IsHexDigit(c) == \E i \in 1..16 : HexLower[i] = c \/ HexUpper[i] = c

DigitVal(c) == (CHOOSE i \in 1..16 : HexLower[i] = c \/ HexUpper[i] = c) - 1

RECURSIVE HexValue(_)
HexValue(ds) ==
  IF Len(ds) = 0 THEN 0
  ELSE HexValue(SubSeq(ds, 1, Len(ds) - 1)) * 16 + DigitVal(ds[Len(ds)])

(* u8::from_str_radix(s, 16): optional leading "+", then hex digits *)
FromStrRadix16(s) ==
  LET digits == IF Len(s) > 0 /\ s[1] = "+" THEN Tail(s) ELSE s
  IN  IF Len(digits) = 0 \/ \E i \in 1..Len(digits) : ~IsHexDigit(digits[i])
      THEN [ok |-> FALSE, val |-> 0]
      ELSE IF HexValue(digits) > 255
           THEN [ok |-> FALSE, val |-> 0]
           ELSE [ok |-> TRUE, val |-> HexValue(digits)]

(* a selection that falls back to gray whenever a pair does not parse *)
ParseColorLenient(pixel) ==
  LET off == IF Len(pixel) = 7 THEN 1 ELSE 0
      r == FromStrRadix16(SubSeq(pixel, off + 1, off + 2))
      g == FromStrRadix16(SubSeq(pixel, off + 3, off + 4))
      b == FromStrRadix16(SubSeq(pixel, off + 5, off + 6))
  IN  IF (Len(pixel) = 7 \/ Len(pixel) = 6) /\ r.ok /\ g.ok /\ b.ok
      THEN [ok |-> TRUE, rgb |-> <<r.val, g.val, b.val>>]
      ELSE [ok |-> TRUE, rgb |-> <<GRAY, GRAY, GRAY>>]

(* the (r, g, b) selection of write_character; slices are 0-based in Rust *)
ParseColor(pixel) ==
  LET off == IF Len(pixel) = 7 THEN 1 ELSE 0
      r == FromStrRadix16(SubSeq(pixel, off + 1, off + 2))
      g == FromStrRadix16(SubSeq(pixel, off + 3, off + 4))
      b == FromStrRadix16(SubSeq(pixel, off + 5, off + 6))
  IN  IF Len(pixel) = 7 \/ Len(pixel) = 6
      THEN IF r.ok /\ g.ok /\ b.ok
           THEN [ok |-> TRUE, rgb |-> <<r.val, g.val, b.val>>]
           ELSE [ok |-> FALSE, rgb |-> <<0, 0, 0>>]
      ELSE [ok |-> TRUE, rgb |-> <<GRAY, GRAY, GRAY>>]

ImageIdx(x, y, width) == (x + y * width) * 4

(* one iteration of the pixel loop: the coordinate lookup, then for every  *)
(* (extra_x, extra_y) the color parse and the four byte writes.  The image *)
(* is kept sparse: a function from the written image_idx to <<r,g,b,a>>.   *)
WritePixel(st, char_index, panel_index, pixel_index, pixel, pixel_size, width) ==
  IF st.status # "Ok" THEN st
  ELSE IF char_index + 1 > Len(Coords) \/ panel_index + 1 > Len(Coords[char_index + 1])
  THEN [st EXCEPT !.status = "Panic"]
  ELSE IF pixel_size = 0 THEN st
  ELSE LET x == Coords[char_index + 1][panel_index + 1][1] + (pixel_index % 8)
           y == Coords[char_index + 1][panel_index + 1][2] + (pixel_index \div 8)
           col == ParseColor(pixel)
           idxs == { ImageIdx(ex + x * pixel_size, ey + y * pixel_size, width) :
                       ex \in 0..(pixel_size - 1), ey \in 0..(pixel_size - 1) }
       IN  IF ~col.ok THEN [st EXCEPT !.status = "Err"]
           ELSE IF \E i \in idxs : i + 3 >= st.len
           THEN [st EXCEPT !.status = "Panic"]
           ELSE [st EXCEPT !.data =
                   [i \in (DOMAIN st.data) \cup idxs |->
                      IF i \in idxs THEN <<col.rgb[1], col.rgb[2], col.rgb[3], OPAQUE>>
                      ELSE st.data[i]]]

RECURSIVE WritePanel(_, _, _, _, _, _, _)
WritePanel(st, panel, n, char_index, panel_index, pixel_size, width) ==
  IF n = 0 THEN st
  ELSE WritePixel(WritePanel(st, panel, n - 1, char_index, panel_index, pixel_size, width),
                  char_index, panel_index, n - 1, panel[n], pixel_size, width)

RECURSIVE WritePanels(_, _, _, _, _, _)
WritePanels(st, chr, n, char_index, pixel_size, width) ==
  IF n = 0 THEN st
  ELSE WritePanel(WritePanels(st, chr, n - 1, char_index, pixel_size, width),
                  chr[n], Len(chr[n]), char_index, n - 1, pixel_size, width)

write_character(st, chr, char_index, pixel_size, width) ==
  WritePanels(st, chr, Len(chr), char_index, pixel_size, width)

RECURSIVE WriteCharacters(_, _, _, _, _)
WriteCharacters(st, logo, n, pixel_size, width) ==
  IF n = 0 THEN st
  ELSE LET prev == WriteCharacters(st, logo, n - 1, pixel_size, width)
       IN  IF prev.status # "Ok" THEN prev
           ELSE write_character(prev, logo[n], n - 1, pixel_size, width)

(* get_logo_data on a snapshot of the cache *)
get_logo_data(logo, pixel_size) ==
  LET width == LOGO_WIDTH * pixel_size
      height == LOGO_HEIGHT * pixel_size
      blank == [status |-> "Ok", len |-> width * height * 4, data |-> <<>>]
      st == WriteCharacters(blank, logo, Len(logo), pixel_size, width)
  IN  [status |-> st.status, width |-> width, height |-> height, data |-> st.data]

NoPng == [width |-> 0, height |-> 0, data |-> <<>>]

(* get_logo_png: the encoder is lossless, so the PNG is the raster tagged  *)
(* with its dimensions                                                     *)
get_logo_png(logo, pixel_size) ==
  LET img == get_logo_data(logo, pixel_size)
  IN  IF img.status = "Ok"
      THEN [status |-> "Ok", png |-> [width |-> img.width, height |-> img.height, data |-> img.data]]
      ELSE [status |-> img.status, png |-> NoPng]


(* ------------------------------- state -------------------------------- *)
VARIABLES
  cache,          \* LOGO_CACHE: the LogoResponse currently held
  cacheReaders,   \* tasks holding a read guard of LOGO_CACHE
  updPc,          \* position of the update thread
  live_logo,      \* update_logo's local live_logo
  logo_png,       \* update_logo's local logo_png
  prevCand,       \* <<d>> when d is the candidate of the latest comparison, else <<>>
  casResult,      \* branch taken by the latest comparison
  nChanged,       \* number of comparisons that took the != branch
  nBroadcast,     \* number of send_update calls
  nPersist,       \* number of save_logo calls
  todo,           \* listener ids the running send_update has not visited yet
  lastLog,        \* latest line the running / latest update_logo call made the thread print
  next_id,        \* NEXT_LISTENER_ID
  listeners,      \* LISTENERS: id -> connection owning the receiving end
  regReaders,     \* tasks holding a read guard of LISTENERS
  connPc,         \* position of each websocket connection task
  my_id,          \* listener_connected's local my_id
  rxOpen,         \* the receiving end of the connection's channel is alive
  outbound,       \* messages enqueued on the connection's channel
  history,        \* rows of the timeline table, in insertion order
  reqPc,          \* position of the GET /logo.png request being served
  reqSize,        \* options.size of the request
  response        \* outcome of the latest request

vars == <<cache, cacheReaders, updPc, live_logo, logo_png, prevCand, casResult,
          nChanged, nBroadcast, nPersist, todo, lastLog, next_id, listeners,
          regReaders, connPc, my_id, rxOpen, outbound, history, reqPc, reqSize,
          response>>

updVars == <<updPc, live_logo, logo_png, prevCand, casResult, nChanged, nBroadcast,
             nPersist, todo>>
connVars == <<next_id, listeners, connPc, my_id, rxOpen, outbound>>
reqVars == <<reqPc, reqSize, response>>

Conns == 1..MaxConns
ReqSizes == 1..MaxScale
NoResponse == [status |-> "None", png |-> NoPng]
UPD == "update_logo"
REQ == "logo"

Init ==
  /\ cache = EmptyLogo
  /\ cacheReaders = {}
  /\ updPc = "Idle"
  /\ live_logo = EmptyLogo
  /\ logo_png = NoPng
  /\ prevCand = <<>>
  /\ casResult = "None"
  /\ nChanged = 0
  /\ nBroadcast = 0
  /\ nPersist = 0
  /\ todo = {}
  /\ lastLog = ""
  /\ next_id = FIRST_LISTENER_ID
  /\ listeners = <<>>
  /\ regReaders = {}
  /\ connPc = [c \in Conns |-> "None"]
  /\ my_id = [c \in Conns |-> 0]
  /\ rxOpen = [c \in Conns |-> FALSE]
  /\ outbound = [c \in Conns |-> <<>>]
  /\ history = <<>>
  /\ reqPc = "Idle"
  /\ reqSize = 1
  /\ response = NoResponse

(* --------------------------- update thread ---------------------------- *)
(* main.rs: loop { update_logo(); sleep(1s) } -- the sleep has elapsed *)
Tick ==
  /\ updPc = "Idle"
  /\ updPc' = "Fetching"
  /\ lastLog' = ""
  /\ UNCHANGED <<cache, cacheReaders, live_logo, logo_png, prevCand, casResult,
                 nChanged, nBroadcast, nPersist, todo, connVars, regReaders,
                 history, reqVars>>

(* reqwest::get(..)?.json()? succeeded with description d; the model stops *)
(* the upstream from changing after MaxChanges changes                     *)
FetchOk(d) ==
  /\ updPc = "Fetching"
  /\ d # cache => nChanged < MaxChanges
  /\ live_logo' = d
  /\ updPc' = "Deciding"
  /\ UNCHANGED <<cache, cacheReaders, logo_png, prevCand, casResult, nChanged,
                 nBroadcast, nPersist, todo, lastLog, connVars, regReaders,
                 history, reqVars>>

(* a failed fetch that resets the cache to the empty description *)
FetchErrClearsCache ==
  /\ updPc = "Fetching"
  /\ updPc' = "Idle"
  /\ cache' = EmptyLogo
  /\ lastLog' = "Error updating logo"
  /\ UNCHANGED <<cacheReaders, live_logo, logo_png, prevCand, casResult,
                 nChanged, nBroadcast, nPersist, todo, connVars, regReaders,
                 history, reqVars>>

(* either ? returned the error: update_logo returns Err, main prints it *)
FetchErr ==
  /\ updPc = "Fetching"
  /\ updPc' = "Idle"
  /\ lastLog' = "Error updating logo"
  /\ UNCHANGED <<cache, cacheReaders, live_logo, logo_png, prevCand, casResult,
                 nChanged, nBroadcast, nPersist, todo, connVars, regReaders,
                 history, reqVars>>

(* let old_logo = LOGO_CACHE.read() *)
ReadOld ==
  /\ updPc = "Deciding"
  /\ cacheReaders' = cacheReaders \cup {UPD}
  /\ updPc' = "Comparing"
  /\ UNCHANGED <<cache, live_logo, logo_png, prevCand, casResult, nChanged,
                 nBroadcast, nPersist, todo, lastLog, connVars, regReaders,
                 history, reqVars>>

(* a comparison that looks at the number of character-cells only *)
LogoNeShallow(a, b) == Len(a) # Len(b)

(* derived PartialEq of LogoResponse: deep equality of the nested vectors *)
LogoNe(a, b) == a # b

(* a comparison whose result is ignored: every fetched value is propagated *)
CompareAlwaysPropagates ==
  /\ updPc = "Comparing"
  /\ cacheReaders' = cacheReaders \ {UPD}
  /\ prevCand' = <<live_logo>>
  /\ updPc' = "Writing"
  /\ casResult' = IF LogoNe(live_logo, cache) THEN "Changed" ELSE "Unchanged"
  /\ nChanged' = IF LogoNe(live_logo, cache) THEN nChanged + 1 ELSE nChanged
  /\ live_logo' = live_logo
  /\ UNCHANGED <<cache, logo_png, nBroadcast, nPersist, todo, lastLog,
                 connVars, regReaders, history, reqVars>>

(* a comparison that goes on to the write with old_logo still alive *)
CompareKeepsGuard ==
  /\ updPc = "Comparing"
  /\ prevCand' = <<live_logo>>
  /\ IF LogoNe(live_logo, cache)
     THEN /\ updPc' = "Writing"
          /\ casResult' = "Changed"
          /\ nChanged' = nChanged + 1
          /\ live_logo' = live_logo
          /\ cacheReaders' = cacheReaders
     ELSE /\ updPc' = "Idle"
          /\ casResult' = "Unchanged"
          /\ nChanged' = nChanged
          /\ live_logo' = EmptyLogo
          /\ cacheReaders' = cacheReaders \ {UPD}
  /\ UNCHANGED <<cache, logo_png, nBroadcast, nPersist, todo, lastLog,
                 connVars, regReaders, history, reqVars>>

(* if live_logo != *old_logo { drop(old_logo); .. } else the guard is      *)
(* dropped when update_logo returns Ok(())                                 *)
Compare ==
  /\ updPc = "Comparing"
  /\ cacheReaders' = cacheReaders \ {UPD}
  /\ prevCand' = <<live_logo>>
  /\ IF LogoNe(live_logo, cache)
     THEN /\ updPc' = "Writing"
          /\ casResult' = "Changed"
          /\ nChanged' = nChanged + 1
          /\ live_logo' = live_logo
     ELSE /\ updPc' = "Idle"
          /\ casResult' = "Unchanged"
          /\ nChanged' = nChanged
          /\ live_logo' = EmptyLogo
  /\ UNCHANGED <<cache, logo_png, nBroadcast, nPersist, todo, lastLog,
                 connVars, regReaders, history, reqVars>>

(* the write guard is taken and dropped without storing the candidate *)
ReplaceDropsCandidate ==
  /\ updPc = "Writing"
  /\ cacheReaders = {}
  /\ cache' = cache
  /\ live_logo' = EmptyLogo
  /\ updPc' = "Rendering"
  /\ UNCHANGED <<cacheReaders, logo_png, prevCand, casResult, nChanged, nBroadcast,
                 nPersist, todo, lastLog, connVars, regReaders, history, reqVars>>

(* LOGO_CACHE.write(); mem::replace(&mut *logo_cache, live_logo); drop *)
Replace ==
  /\ updPc = "Writing"
  /\ cacheReaders = {}
  /\ cache' = live_logo
  /\ live_logo' = EmptyLogo
  /\ updPc' = "Rendering"
  /\ UNCHANGED <<cacheReaders, logo_png, prevCand, casResult, nChanged, nBroadcast,
                 nPersist, todo, lastLog, connVars, regReaders, history, reqVars>>

(* get_logo_png(LogoOptions::default()): get_logo_data takes the read guard *)
RenderBegin ==
  /\ updPc = "Rendering"
  /\ cacheReaders' = cacheReaders \cup {UPD}
  /\ updPc' = "RenderingLocked"
  /\ UNCHANGED <<cache, live_logo, logo_png, prevCand, casResult, nChanged,
                 nBroadcast, nPersist, todo, lastLog, connVars, regReaders,
                 history, reqVars>>

(* a render of the local live_logo, which mem::replace has moved out of *)
RenderEndOfMovedValue ==
  /\ updPc = "RenderingLocked"
  /\ cacheReaders' = cacheReaders \ {UPD}
  /\ LET r == get_logo_png(live_logo, 1)
     IN  IF r.status = "Ok"
         THEN /\ logo_png' = r.png
              /\ updPc' = "Broadcasting"
              /\ lastLog' = lastLog
         ELSE /\ logo_png' = NoPng
              /\ updPc' = "Panicked"
              /\ lastLog' = "panicked: Could not get logo data"
  /\ UNCHANGED <<cache, live_logo, prevCand, casResult, nChanged, nBroadcast,
                 nPersist, todo, connVars, regReaders, history, reqVars>>

(* the render of the cached value ends; .expect("Could not get logo data") *)
(* panics the update thread on Err, an index panic unwinds it as well      *)
RenderEnd ==
  /\ updPc = "RenderingLocked"
  /\ cacheReaders' = cacheReaders \ {UPD}
  /\ LET r == get_logo_png(cache, 1)
     IN  IF r.status = "Ok"
         THEN /\ logo_png' = r.png
              /\ updPc' = "Broadcasting"
              /\ lastLog' = lastLog
         ELSE /\ logo_png' = NoPng
              /\ updPc' = "Panicked"
              /\ lastLog' = "panicked: Could not get logo data"
  /\ UNCHANGED <<cache, live_logo, prevCand, casResult, nChanged, nBroadcast,
                 nPersist, todo, connVars, regReaders, history, reqVars>>

(* live::send_update: LISTENERS.read().values() *)
SendBegin ==
  /\ updPc = "Broadcasting"
  /\ regReaders' = regReaders \cup {UPD}
  /\ todo' = DOMAIN listeners
  /\ nBroadcast' = nBroadcast + 1
  /\ updPc' = "Sending"
  /\ UNCHANGED <<cache, cacheReaders, live_logo, logo_png, prevCand, casResult,
                 nChanged, nPersist, lastLog, connVars, history, reqVars>>

(* a loop body that returns from send_update at the first failed send *)
SendOneAbortsOnError(id) ==
  /\ updPc = "Sending"
  /\ id \in todo
  /\ IF rxOpen[listeners[id]]
     THEN /\ outbound' = [outbound EXCEPT ![listeners[id]] = Append(@, logo_png)]
          /\ lastLog' = lastLog
          /\ todo' = todo \ {id}
     ELSE /\ outbound' = outbound
          /\ lastLog' = "Error sending"
          /\ todo' = {}
  /\ UNCHANGED <<cache, cacheReaders, updPc, live_logo, logo_png, prevCand,
                 casResult, nChanged, nBroadcast, nPersist, next_id, listeners,
                 regReaders, connPc, my_id, rxOpen, history, reqVars>>

(* an iteration that puts the payload at the head of the receiver's queue *)
SendOnePushFront(id) ==
  /\ updPc = "Sending"
  /\ id \in todo
  /\ todo' = todo \ {id}
  /\ IF rxOpen[listeners[id]]
     THEN /\ outbound' = [outbound EXCEPT ![listeners[id]] = <<logo_png>> \o @]
          /\ lastLog' = lastLog
     ELSE /\ outbound' = outbound
          /\ lastLog' = "Error sending"
  /\ UNCHANGED <<cache, cacheReaders, updPc, live_logo, logo_png, prevCand,
                 casResult, nChanged, nBroadcast, nPersist, next_id, listeners,
                 regReaders, connPc, my_id, rxOpen, history, reqVars>>

(* an iteration that drops the entry of a sender whose receiver is gone *)
SendOnePrunes(id) ==
  /\ updPc = "Sending"
  /\ id \in todo
  /\ todo' = todo \ {id}
  /\ IF rxOpen[listeners[id]]
     THEN /\ outbound' = [outbound EXCEPT ![listeners[id]] = Append(@, logo_png)]
          /\ lastLog' = lastLog
          /\ listeners' = listeners
     ELSE /\ outbound' = outbound
          /\ lastLog' = "Error sending"
          /\ listeners' = [i \in (DOMAIN listeners) \ {id} |-> listeners[i]]
  /\ UNCHANGED <<cache, cacheReaders, updPc, live_logo, logo_png, prevCand,
                 casResult, nChanged, nBroadcast, nPersist, next_id,
                 regReaders, connPc, my_id, rxOpen, history, reqVars>>

(* an iteration that sends without advancing the iterator *)
SendOneRevisits(id) ==
  /\ updPc = "Sending"
  /\ id \in todo
  /\ todo' = todo
  /\ IF rxOpen[listeners[id]]
     THEN /\ outbound' = [outbound EXCEPT ![listeners[id]] = Append(@, logo_png)]
          /\ lastLog' = lastLog
     ELSE /\ outbound' = outbound
          /\ lastLog' = "Error sending"
  /\ UNCHANGED <<cache, cacheReaders, updPc, live_logo, logo_png, prevCand,
                 casResult, nChanged, nBroadcast, nPersist, next_id, listeners,
                 regReaders, connPc, my_id, rxOpen, history, reqVars>>

(* one iteration of the for loop, in the hash map's iteration order *)
SendOne(id) ==
  /\ updPc = "Sending"
  /\ id \in todo
  /\ todo' = todo \ {id}
  /\ IF rxOpen[listeners[id]]
     THEN /\ outbound' = [outbound EXCEPT ![listeners[id]] = Append(@, logo_png)]
          /\ lastLog' = lastLog
     ELSE /\ outbound' = outbound
          /\ lastLog' = "Error sending"
  /\ UNCHANGED <<cache, cacheReaders, updPc, live_logo, logo_png, prevCand,
                 casResult, nChanged, nBroadcast, nPersist, next_id, listeners,
                 regReaders, connPc, my_id, rxOpen, history, reqVars>>

(* a send_update that returns while receivers are still unvisited *)
SendEndEarly ==
  /\ updPc = "Sending"
  /\ regReaders' = regReaders \ {UPD}
  /\ updPc' = "Persisting"
  /\ UNCHANGED <<cache, cacheReaders, live_logo, logo_png, prevCand, casResult,
                 nChanged, nBroadcast, nPersist, todo, lastLog, connVars, history,
                 reqVars>>

(* the iterator is exhausted, the read guard is dropped, send_update returns *)
SendEnd ==
  /\ updPc = "Sending"
  /\ todo = {}
  /\ regReaders' = regReaders \ {UPD}
  /\ updPc' = "Persisting"
  /\ UNCHANGED <<cache, cacheReaders, live_logo, logo_png, prevCand, casResult,
                 nChanged, nBroadcast, nPersist, todo, lastLog, connVars, history,
                 reqVars>>

(* db::save_logo committed the INSERT *)
SaveOk ==
  /\ updPc = "Persisting"
  /\ history' = Append(history, logo_png)
  /\ nPersist' = nPersist + 1
  /\ logo_png' = NoPng
  /\ updPc' = "Idle"
  /\ UNCHANGED <<cache, cacheReaders, live_logo, prevCand, casResult, nChanged,
                 nBroadcast, todo, lastLog, connVars, regReaders, reqVars>>

(* a save_logo(..).expect(..): the store error unwinds the update thread *)
SaveErrPanics ==
  /\ updPc = "Persisting"
  /\ nPersist' = nPersist + 1
  /\ lastLog' = "panicked: Error saving logo to db"
  /\ logo_png' = NoPng
  /\ updPc' = "Panicked"
  /\ UNCHANGED <<cache, cacheReaders, live_logo, prevCand, casResult, nChanged,
                 nBroadcast, todo, connVars, regReaders, history, reqVars>>

(* db::save_logo returned Err (no connection, or the transaction failed) *)
SaveErr ==
  /\ updPc = "Persisting"
  /\ nPersist' = nPersist + 1
  /\ lastLog' = "Error saving logo to db"
  /\ logo_png' = NoPng
  /\ updPc' = "Idle"
  /\ UNCHANGED <<cache, cacheReaders, live_logo, prevCand, casResult, nChanged,
                 nBroadcast, todo, connVars, regReaders, history, reqVars>>

(* ------------------------ websocket connections ----------------------- *)
(* connections are numbered in the order of their fetch_add *)
NextConn(c) == connPc[c] = "None" /\ \A b \in DOMAIN connPc : b < c => connPc[b] # "None"

(* a counter that is two bits wide and skips 0 when it wraps *)
FetchAddIdNarrow(counter) == ((counter - 1) % 3) + 1

(* NEXT_LISTENER_ID.fetch_add(1, Relaxed): the id handed to the caller *)
FetchAddId(counter) == counter

(* listener_connected up to warp::spawn: my_id, the channel, the forwarder *)
Connect(c) ==
  /\ NextConn(c)
  /\ my_id' = [my_id EXCEPT ![c] = FetchAddId(next_id)]
  /\ next_id' = next_id + 1
  /\ rxOpen' = [rxOpen EXCEPT ![c] = TRUE]
  /\ connPc' = [connPc EXCEPT ![c] = "Accepted"]
  /\ UNCHANGED <<cache, cacheReaders, updVars, lastLog, listeners, regReaders,
                 outbound, history, reqVars>>

(* HashMap::insert *)
HashMapInsert(m, k, v) == [i \in (DOMAIN m) \cup {k} |-> IF i = k THEN v ELSE m[i]]

(* a removal that also drops every entry added after the key *)
HashMapRemoveFrom(m, k) == [i \in { j \in DOMAIN m : j < k } |-> m[i]]

(* HashMap::remove: the map without the key, the same map if it is absent *)
HashMapRemove(m, k) == [i \in (DOMAIN m) \ {k} |-> m[i]]

(* LISTENERS.write().insert(my_id, tx) *)
Insert(c) ==
  /\ connPc[c] = "Accepted"
  /\ regReaders = {}
  /\ listeners' = HashMapInsert(listeners, my_id[c], c)
  /\ connPc' = [connPc EXCEPT ![c] = "Listening"]
  /\ UNCHANGED <<cache, cacheReaders, updVars, lastLog, next_id, regReaders,
                 my_id, rxOpen, outbound, history, reqVars>>

(* the forwarder rx.forward(listener_ws_tx) ends on a websocket send error: *)
(* the receiving end of the channel is dropped                              *)
ForwardEnd(c) ==
  /\ connPc[c] = "Listening"
  /\ rxOpen[c]
  /\ rxOpen' = [rxOpen EXCEPT ![c] = FALSE]
  /\ UNCHANGED <<cache, cacheReaders, updVars, lastLog, next_id, listeners,
                 regReaders, connPc, my_id, outbound, history, reqVars>>

(* a .then closure that returns the result without touching LISTENERS *)
DisconnectKeepsSender(c) ==
  /\ connPc[c] = "Listening"
  /\ regReaders = {}
  /\ listeners' = listeners
  /\ rxOpen' = rxOpen
  /\ connPc' = [connPc EXCEPT ![c] = "Gone"]
  /\ UNCHANGED <<cache, cacheReaders, updVars, lastLog, next_id, regReaders,
                 my_id, outbound, history, reqVars>>

(* listener_ws_rx.for_each(..) resolved, with Ok when the peer closed or    *)
(* with a transport error; .then runs its closure on either:                *)
(* LISTENERS.write().remove(&my_id).  The sender is dropped with the entry, *)
(* which closes the channel.                                                *)
Disconnect(c) ==
  /\ connPc[c] = "Listening"
  /\ regReaders = {}
  /\ listeners' = HashMapRemove(listeners, my_id[c])
  /\ rxOpen' = [rxOpen EXCEPT ![c] = FALSE]
  /\ connPc' = [connPc EXCEPT ![c] = "Gone"]
  /\ UNCHANGED <<cache, cacheReaders, updVars, lastLog, next_id, regReaders,
                 my_id, outbound, history, reqVars>>

(* the unregister of a connection that has already unregistered: the same  *)
(* LISTENERS.write().remove(&my_id), called a second time                   *)
RemoveAgain(c) ==
  /\ connPc[c] = "Gone"
  /\ regReaders = {}
  /\ listeners' = HashMapRemove(listeners, my_id[c])
  /\ connPc' = [connPc EXCEPT ![c] = "GoneTwice"]
  /\ UNCHANGED <<cache, cacheReaders, updVars, lastLog, next_id, regReaders,
                 my_id, rxOpen, outbound, history, reqVars>>

(* ------------------------- GET /logo.png requests --------------------- *)
(* logo(options) -> get_logo_png -> get_logo_data takes the read guard *)
ReqBegin(size) ==
  /\ reqPc = "Idle"
  /\ reqPc' = "Rendering"
  /\ reqSize' = size
  /\ response' = NoResponse
  /\ cacheReaders' = cacheReaders \cup {REQ}
  /\ UNCHANGED <<cache, updVars, lastLog, connVars, regReaders, history>>

(* a handler that ignores options.size and renders at the default scale *)
ReqEndDefaultScale ==
  /\ reqPc = "Rendering"
  /\ cacheReaders' = cacheReaders \ {REQ}
  /\ reqPc' = "Idle"
  /\ LET res == get_logo_png(cache, 1)
     IN  response' = IF res.status = "Ok" THEN res ELSE [status |-> "Panic", png |-> NoPng]
  /\ UNCHANGED <<cache, updVars, lastLog, connVars, regReaders, history, reqSize>>

(* the render ends and the guard is dropped; logo() answers with the PNG,  *)
(* .expect("Could not get logo data") panics the request otherwise         *)
ReqEnd ==
  /\ reqPc = "Rendering"
  /\ cacheReaders' = cacheReaders \ {REQ}
  /\ reqPc' = "Idle"
  /\ LET res == get_logo_png(cache, reqSize)
     IN  response' = IF res.status = "Ok" THEN res ELSE [status |-> "Panic", png |-> NoPng]
  /\ UNCHANGED <<cache, updVars, lastLog, connVars, regReaders, history, reqSize>>

(* --------------------------- specification ---------------------------- *)
(* the update thread, but for the body of send_update's loop *)
NextThread ==
  \/ Tick
  \/ \E d \in FetchSet : FetchOk(d)
  \/ FetchErr
  \/ ReadOld
  \/ Compare
  \/ Replace
  \/ RenderBegin
  \/ RenderEnd
  \/ SendBegin
  \/ SendEnd
  \/ SaveOk
  \/ SaveErr

NextUpdate ==
  \/ NextThread
  \/ \E id \in todo : SendOne(id)

NextConns ==
  \/ \E c \in DOMAIN connPc : Connect(c)
  \/ \E c \in DOMAIN connPc : Insert(c)
  \/ \E c \in DOMAIN connPc : ForwardEnd(c)
  \/ \E c \in DOMAIN connPc : Disconnect(c)

NextReqs ==
  \/ \E size \in ReqSizes : ReqBegin(size)
  \/ ReqEnd

Next == NextUpdate \/ NextConns \/ NextReqs

(* the whole system *)
Spec == Init /\ [][Next]_vars

(* the update thread and the websocket connections, no /logo.png request *)
NextLive == NextUpdate \/ NextConns
SpecLive == Init /\ [][NextLive]_vars

(* the update thread and the /logo.png requests, no websocket connection:  *)
(* send_update's loop has nothing to iterate over                          *)
NextCache == NextThread \/ NextReqs
SpecCache == Init /\ [][NextCache]_vars

(* the listener registry alone, with more connections and with unregister  *)
(* repeated; the update thread and the requests stay idle                  *)
Listeners == 1..MaxListeners

InitRegistry ==
  /\ cache = EmptyLogo
  /\ cacheReaders = {}
  /\ updPc = "Idle"
  /\ live_logo = EmptyLogo
  /\ logo_png = NoPng
  /\ prevCand = <<>>
  /\ casResult = "None"
  /\ nChanged = 0
  /\ nBroadcast = 0
  /\ nPersist = 0
  /\ todo = {}
  /\ lastLog = ""
  /\ next_id = FIRST_LISTENER_ID
  /\ listeners = <<>>
  /\ regReaders = {}
  /\ connPc = [c \in Listeners |-> "None"]
  /\ my_id = [c \in Listeners |-> 0]
  /\ rxOpen = [c \in Listeners |-> FALSE]
  /\ outbound = [c \in Listeners |-> <<>>]
  /\ history = <<>>
  /\ reqPc = "Idle"
  /\ reqSize = 1
  /\ response = NoResponse

NextRegistry ==
  \/ NextConns
  \/ \E c \in DOMAIN connPc : RemoveAgain(c)

SpecRegistry == InitRegistry /\ [][NextRegistry]_vars

(* ------------------------------ properties ---------------------------- *)
Propagating == {"Rendering", "RenderingLocked", "Broadcasting", "Sending", "Persisting"}
Last(q) == q[Len(q)]
IsPrefix(p, q) == Len(p) <= Len(q) /\ SubSeq(q, 1, Len(p)) = p
Registered == DOMAIN listeners

(* C1: the comparison reports Changed exactly when the candidate differs    *)
(* from the cached description and leaves the cache alone; a Changed        *)
(* candidate is then installed as it was compared, an Unchanged one returns *)
(* to Idle; the cache is written by nothing else, whatever the requests do  *)
C1_CompareAndSwap ==
  [][ /\ (updPc = "Comparing" /\ updPc' # "Comparing") =>
           /\ cache' = cache
           /\ prevCand' = <<live_logo>>
           /\ (live_logo # cache) => (casResult' = "Changed" /\ updPc' = "Writing")
           /\ (live_logo = cache) => (casResult' = "Unchanged" /\ updPc' = "Idle")
      /\ (updPc = "Writing" /\ updPc' # "Writing") =>
           (cache' = prevCand[1] /\ cache' # cache /\ casResult = "Changed")
      /\ (cache' # cache) => updPc = "Writing"
    ]_vars

C1_Witness ==
  /\ updPc = "Rendering"
  /\ casResult = "Changed"
  /\ cache = DRed
  /\ reqPc = "Rendering"

(* C2 as stated: from the fresh cache the first comparison reports Changed, *)
(* and a comparison after one of D reports Changed for a value other than D *)
(* and Unchanged for D again                                                *)
C2_AsStated ==
  [][ (updPc = "Comparing" /\ updPc' # "Comparing") =>
        IF prevCand = <<>>
        THEN casResult' = "Changed"
        ELSE IF live_logo # prevCand[1]
             THEN casResult' = "Changed"
             ELSE casResult' = "Unchanged"
    ]_vars

(* C2 amended: the first comparison from the fresh cache reports Changed    *)
(* unless its value is the empty description the cache starts with, which   *)
(* reports Unchanged; after a comparison of D, a value other than D reports *)
(* Changed and D again reports Unchanged                                    *)
C2_Amended ==
  [][ (updPc = "Comparing" /\ updPc' # "Comparing") =>
        IF prevCand = <<>>
        THEN IF live_logo # EmptyLogo
             THEN casResult' = "Changed"
             ELSE casResult' = "Unchanged"
        ELSE IF live_logo # prevCand[1]
             THEN casResult' = "Changed"
             ELSE casResult' = "Unchanged"
    ]_vars

C2_Witness ==
  /\ updPc = "Idle"
  /\ prevCand = <<DRed>>
  /\ casResult = "Unchanged"
  /\ nChanged = 1
  /\ cache = DRed

(* C3: while send_update runs, every listener it has passed whose channel   *)
(* is open has the payload as its newest message, whatever the state of the *)
(* other channels; the loop visits registered listeners only, and the call  *)
(* returns to update_logo, which goes on to the history insert              *)
C3_SubscriberIsolation ==
  /\ [](updPc = "Sending" =>
          /\ todo \subseteq Registered
          /\ \A id \in Registered \ todo :
               rxOpen[listeners[id]] =>
                 /\ Len(outbound[listeners[id]]) > 0
                 /\ Last(outbound[listeners[id]]) = logo_png)
  /\ [][updPc = "Sending" => updPc' \in {"Sending", "Persisting"}]_vars

C3_Witness ==
  /\ updPc = "Sending"
  /\ todo = {}
  /\ lastLog = "Error sending"
  /\ Cardinality(Registered) = 2
  /\ \E id \in Registered : ~rxOpen[listeners[id]]
  /\ \E id \in Registered :
       /\ rxOpen[listeners[id]]
       /\ Len(outbound[listeners[id]]) > 0
       /\ Last(outbound[listeners[id]]) = logo_png

(* C4: ids start at 1, every connection's id is below the counter, a later  *)
(* connection has a greater id than every earlier one, whether or not the   *)
(* earlier one is still registered, and the registry maps each id to the    *)
(* connection that was given it                                             *)
Assigned == { c \in DOMAIN connPc : connPc[c] # "None" }

C4_IdsUniqueIncreasing ==
  /\ \A c \in Assigned : FIRST_LISTENER_ID <= my_id[c] /\ my_id[c] < next_id
  /\ \A c, d \in Assigned : c < d => my_id[c] < my_id[d]
  /\ (1 \in Assigned) => my_id[1] = FIRST_LISTENER_ID
  /\ \A id \in Registered : listeners[id] \in Assigned /\ my_id[listeners[id]] = id

C4_Witness ==
  /\ connPc[1] = "Listening"
  /\ connPc[2] = "Gone"
  /\ connPc[3] = "Listening"
  /\ connPc[4] = "Listening"
  /\ my_id[4] > my_id[3]
  /\ my_id[4] \notin {my_id[1], my_id[2], my_id[3]}
  /\ Registered = {my_id[1], my_id[3], my_id[4]}

(* C5: a connection's remove, first or repeated, takes its own id out of    *)
(* the registry and leaves every other entry as it was; when the id is      *)
(* absent the registry is unchanged and the task goes on                    *)
C5_UnregisterIdempotent ==
  [][ \A c \in DOMAIN connPc :
        (connPc[c] \in {"Listening", "Gone"} /\ connPc'[c] \in {"Gone", "GoneTwice"}
           /\ connPc'[c] # connPc[c]) =>
          /\ DOMAIN listeners' = (DOMAIN listeners) \ {my_id[c]}
          /\ \A id \in (DOMAIN listeners) \ {my_id[c]} : listeners'[id] = listeners[id]
          /\ (my_id[c] \notin DOMAIN listeners) => listeners' = listeners
    ]_vars

C5_Witness ==
  /\ connPc[1] = "Listening"
  /\ connPc[2] = "GoneTwice"
  /\ connPc[3] = "Listening"
  /\ Registered = {my_id[1], my_id[3]}

(* C6: send_update and save_logo run only in a call whose comparison        *)
(* reported Changed: the thread is in the propagating positions only then,  *)
(* nothing is enqueued or inserted otherwise, an Unchanged comparison goes  *)
(* straight back to Idle, and at Idle there has been exactly one broadcast  *)
(* and one persist per Changed                                              *)
C6_PropagateOnlyOnChange ==
  /\ [](/\ updPc \in Propagating => casResult = "Changed"
        /\ nBroadcast <= nChanged
        /\ nPersist <= nBroadcast
        /\ updPc = "Idle" => (nBroadcast = nChanged /\ nPersist = nChanged))
  /\ [][ /\ (nBroadcast' # nBroadcast \/ nPersist' # nPersist
               \/ outbound' # outbound \/ history' # history) =>
             (casResult = "Changed" /\ updPc \in Propagating)
         /\ (updPc = "Comparing" /\ live_logo = cache /\ updPc' # updPc) =>
             (updPc' = "Idle" /\ nBroadcast' = nBroadcast /\ nPersist' = nPersist)
       ]_vars

C6_Witness ==
  /\ updPc = "Idle"
  /\ casResult = "Unchanged"
  /\ prevCand = <<DRed>>
  /\ nChanged = 1
  /\ nBroadcast = 1
  /\ nPersist = 1
  /\ \E c \in DOMAIN connPc : Len(outbound[c]) = 1

(* C7: from the tick to the failed fetch and back to Idle no step changes   *)
(* the cache, the channels, the history or the call counts; the failure is  *)
(* printed, the thread is at Idle and its next tick can start               *)
C7_FetchFailureKeepsCache ==
  /\ [][ /\ (updPc \in {"Idle", "Fetching"}) =>
              /\ cache' = cache
              /\ outbound' = outbound
              /\ history' = history
              /\ nBroadcast' = nBroadcast
              /\ nPersist' = nPersist
         /\ (updPc = "Fetching" /\ updPc' # "Fetching") =>
              \/ updPc' = "Deciding"
              \/ updPc' = "Idle" /\ lastLog' = "Error updating logo"
       ]_vars
  /\ [](updPc = "Idle" => ENABLED Tick)

C7_Witness ==
  /\ updPc = "Idle"
  /\ lastLog = "Error updating logo"
  /\ cache = DRed
  /\ nBroadcast = 1

(* C8 as stated: when the render of the installed description fails, the    *)
(* failure is printed, nothing is enqueued or inserted, and the thread is   *)
(* back at Idle                                                             *)
C8_RenderFailureRecovers ==
  [][ (updPc = "RenderingLocked" /\ updPc' # "RenderingLocked"
         /\ get_logo_png(cache, 1).status # "Ok") =>
        /\ updPc' = "Idle"
        /\ outbound' = outbound
        /\ history' = history
    ]_vars

(* C9 as stated: the update thread is always at one of the positions of its *)
(* loop, from which it goes on; it has no position it never leaves          *)
C9_LoopNeverStops ==
  updPc \in {"Idle", "Fetching", "Deciding", "Comparing", "Writing"} \cup Propagating

(* C10: save_logo returns to update_logo, which ends at Idle; a failed      *)
(* insert is printed and changes neither the channels nor the cache, which  *)
(* holds the new description; no message ever leaves a channel's record,    *)
(* and every Changed has been broadcast whatever the rows in the history    *)
C10_PersistFailureIsolated ==
  /\ [][ /\ (updPc = "Persisting" /\ updPc' # "Persisting") =>
              /\ updPc' = "Idle"
              /\ outbound' = outbound
              /\ cache' = cache
              /\ cache = prevCand[1]
              /\ (history' = history) => lastLog' = "Error saving logo to db"
         /\ \A c \in DOMAIN connPc : IsPrefix(outbound[c], outbound'[c])
       ]_vars
  /\ [](updPc = "Idle" => nBroadcast = nChanged)

C10_Witness ==
  /\ updPc = "Idle"
  /\ history = <<>>
  /\ nPersist = 2
  /\ nBroadcast = 2
  /\ \E c \in DOMAIN connPc : Len(outbound[c]) = 2

(* ------------------------------- C11 ---------------------------------- *)
(* C11: within one Propagating step save_logo is called only after        *)
(* send_update has visited every registered sender and returned; it is    *)
(* called once per send_update call (that is, once per successful render) *)
(* and it is handed the very buffer that send_update enqueued.            *)
C11_BroadcastThenPersist ==
  [][ /\ (updPc = "Idle" => nPersist = nBroadcast)
      /\ (nBroadcast' # nBroadcast =>
             /\ updPc = "Broadcasting" /\ logo_png # NoPng
             /\ nBroadcast' = nBroadcast + 1 /\ nPersist = nBroadcast)
      /\ (updPc \in {"Broadcasting", "Sending"} => logo_png' = logo_png)
      /\ (outbound' # outbound =>
             /\ updPc = "Sending"
             /\ \E c \in DOMAIN connPc :
                   outbound' = [outbound EXCEPT ![c] = Append(@, logo_png)])
      /\ (nPersist' # nPersist =>
             /\ updPc = "Persisting" /\ updPc' = "Idle"
             /\ todo = {} /\ UPD \notin regReaders
             /\ nPersist' = nPersist + 1 /\ nBroadcast = nPersist'
             /\ history' \in {history, Append(history, logo_png)})
      /\ (history' # history => nPersist' # nPersist) ]_vars

(* a registered subscriber was sent the buffer, then the same buffer was stored *)
C11_Witness ==
  /\ updPc = "Idle"
  /\ nPersist = 1
  /\ Len(history) = 1
  /\ history[1] # NoPng
  /\ \E c \in DOMAIN connPc : outbound[c] = <<history[1]>>

(* ------------------------------- C12 ---------------------------------- *)
(* C12: the receive-side future of a connection ends only through the     *)
(* .then closure, which removes the connection's id from LISTENERS; once  *)
(* it has ended no registry entry leads to the connection and nothing is  *)
(* enqueued for it any more.                                              *)
C12_TerminationUnregisters ==
  [][ \A c \in DOMAIN connPc :
        /\ (connPc[c] = "Listening" /\ connPc'[c] # "Listening" =>
               /\ connPc'[c] = "Gone"
               /\ my_id[c] \in DOMAIN listeners
               /\ my_id[c] \notin DOMAIN listeners')
        /\ (connPc[c] \in {"Gone", "GoneTwice"} =>
               /\ my_id[c] \notin DOMAIN listeners
               /\ \A id \in DOMAIN listeners : listeners[id] # c
               /\ outbound'[c] = outbound[c]) ]_vars

(* a connection has ended and a later broadcast reached only the other one *)
C12_Witness ==
  \E c, d \in DOMAIN connPc :
    /\ connPc[c] = "Gone"
    /\ connPc[d] = "Listening"
    /\ Len(outbound[d]) > Len(outbound[c])
    /\ Len(outbound[c]) = 1

(* ------------------------------- C13 ---------------------------------- *)
(* C13: whenever the upstream fetch or a render (of the update thread or  *)
(* of a request) is in progress, nobody holds a guard of LOGO_CACHE or of *)
(* LISTENERS.                                                             *)
C13_NoLockAcrossFetchOrRender ==
  (updPc \in {"Fetching", "RenderingLocked"} \/ reqPc = "Rendering")
     => (cacheReaders = {} /\ regReaders = {})

(* ------------------------------- C14 ---------------------------------- *)
(* C14: a broadcast visits the senders that are registered when it takes  *)
(* the read guard, each one once: the registry does not change while the  *)
(* iteration runs, a visit enqueues the payload exactly once when the     *)
(* receiving end is open, and nothing is enqueued outside a visit, so a   *)
(* connection inserted after the iteration ended gets nothing from it.    *)
C14_BroadcastVisitsOnce ==
  [][ /\ (updPc # "Sending" => todo = {})
      /\ (updPc = "Sending" => listeners' = listeners /\ todo \subseteq DOMAIN listeners)
      /\ (updPc = "Sending" /\ updPc' # "Sending" => todo = {})
      /\ (updPc # "Sending" /\ updPc' = "Sending" => todo' = DOMAIN listeners)
      /\ (updPc = "Sending" => todo' \subseteq todo)
      /\ \A id \in todo :
            id \notin todo' =>
              LET c == listeners[id]
              IN  /\ todo' = todo \ {id}
                  /\ \A d \in DOMAIN connPc : d # c => outbound'[d] = outbound[d]
                  /\ outbound'[c] = IF rxOpen[c] THEN Append(outbound[c], logo_png)
                                                ELSE outbound[c]
      /\ (outbound' # outbound => todo' # todo)
      /\ \A c \in DOMAIN connPc :
            /\ (connPc[c] \in {"None", "Accepted"} => outbound[c] = <<>>)
            /\ (connPc[c] = "Accepted" /\ connPc'[c] = "Listening" =>
                   /\ todo = {} /\ todo' = {}
                   /\ outbound'[c] = <<>>) ]_vars

(* the second connection registered after the first broadcast had ended   *)
(* and has only the second payload                                        *)
C14_Witness ==
  /\ nBroadcast = 2
  /\ updPc = "Persisting"
  /\ \E c, d \in DOMAIN connPc :
        /\ connPc[c] = "Listening" /\ connPc[d] = "Listening"
        /\ Len(outbound[c]) = 2
        /\ outbound[d] = <<outbound[c][2]>>
        /\ outbound[c][1] # outbound[c][2]

(* ------------------------------- C15 ---------------------------------- *)
(* C15: until the first change is installed the cache holds the empty     *)
(* description, and a request answered in that period gets, for its pixel *)
(* scale s, the 152s x 32s image in which no pixel was written.           *)
C15_InitialBlank ==
  nChanged = 0 =>
    /\ cache = EmptyLogo
    /\ Len(cache) = 0
    /\ (response.status # "None" =>
          response = [status |-> "Ok",
                      png |-> [width |-> LOGO_WIDTH * reqSize,
                               height |-> LOGO_HEIGHT * reqSize,
                               data |-> <<>>]])

(* a request at a scale above the default was answered while the update   *)
(* thread had not installed anything                                       *)
C15_Witness ==
  /\ nChanged = 0
  /\ cache = EmptyLogo
  /\ response.status = "Ok"
  /\ reqSize > 1
  /\ reqPc = "Idle"

(* ------------------------------- C16 ---------------------------------- *)
(* C16: a request whose render fails is still answered with an image (the *)
(* placeholder): no request ends in a panic.                              *)
C16_RenderFailureServesPlaceholder ==
  [][ reqPc = "Rendering" /\ reqPc' = "Idle" =>
        /\ response'.status = "Ok"
        /\ response'.png # NoPng ]_vars

(* ------------------------------- C17 ---------------------------------- *)
(* C17: no step of send_update changes the set of registered ids, a step  *)
(* whose send fails included; the registry changes only by a connection's *)
(* own insert or remove.                                                  *)
C17_BroadcastKeepsRegistry ==
  [][ /\ (updPc \in {"Broadcasting", "Sending"} /\ <<updPc, todo>>' # <<updPc, todo>>
             => DOMAIN listeners' = DOMAIN listeners /\ listeners' = listeners)
      /\ (lastLog' = "Error sending" /\ lastLog # "Error sending"
             => Registered' = Registered)
      /\ (Registered' # Registered
             => /\ updVars' = updVars
                /\ \E c \in DOMAIN connPc :
                      /\ connPc'[c] # connPc[c]
                      /\ Registered' \in {Registered \cup {my_id[c]},
                                           Registered \ {my_id[c]}}) ]_vars

(* a broadcast met a closed receiver and ended with its entry still there *)
C17_Witness ==
  /\ updPc = "Persisting"
  /\ lastLog = "Error sending"
  /\ \E id \in Registered : ~rxOpen[listeners[id]]

(* ------------------------------- C18 ---------------------------------- *)
(* the renderer alone: the cache holds a description whose second pixel   *)
(* is an arbitrary token, requests render it at every scale               *)
MaxTokenBody == 7
TokenChars == {"a", "g", "+"}
TokenPrefixes == {<<>>, <<"#">>}
Tokens ==
  { p \o b : p \in TokenPrefixes,
              b \in UNION { [1..n -> TokenChars] : n \in 0..MaxTokenBody } }
TokenLogo(t) == << << <<TokRed, t>> >> >>

InitRender ==
  /\ cache \in { TokenLogo(t) : t \in Tokens }
  /\ cacheReaders = {}
  /\ updPc = "Idle"
  /\ live_logo = EmptyLogo
  /\ logo_png = NoPng
  /\ prevCand = <<>>
  /\ casResult = "None"
  /\ nChanged = 0
  /\ nBroadcast = 0
  /\ nPersist = 0
  /\ todo = {}
  /\ lastLog = ""
  /\ next_id = FIRST_LISTENER_ID
  /\ listeners = <<>>
  /\ regReaders = {}
  /\ connPc = [c \in Conns |-> "None"]
  /\ my_id = [c \in Conns |-> 0]
  /\ rxOpen = [c \in Conns |-> FALSE]
  /\ outbound = [c \in Conns |-> <<>>]
  /\ history = <<>>
  /\ reqPc = "Idle"
  /\ reqSize = 1
  /\ response = NoResponse

NextRender == NextReqs
SpecRender == InitRender /\ [][NextRender]_vars

(* the token under test and the bytes of the block it is drawn into *)
TokenOf(logo) == logo[1][1][2]
TokenBlock(png, s) ==
  { png.data[((s + ex) + ey * png.width) * 4] : ex \in 0..(s - 1), ey \in 0..(s - 1) }
FirstBlock(png, s) ==
  { png.data[(ex + ey * png.width) * 4] : ex \in 0..(s - 1), ey \in 0..(s - 1) }
(* what u8::from_str_radix(_, 16) accepts of a two-character string *)
PairParses(t, i) == IsHexDigit(t[i + 1]) /\ (IsHexDigit(t[i]) \/ t[i] = "+")
PairsParse(t) ==
  LET off == Len(t) - 6
  IN  PairParses(t, off + 1) /\ PairParses(t, off + 3) /\ PairParses(t, off + 5)
Answered == reqPc = "Idle" /\ response.status # "None"

(* C18 as stated: every token that is not six hexadecimal digits, with or *)
(* without a leading character, is drawn gray and the render succeeds.    *)
C18_AsStated ==
  Answered =>
    LET t == TokenOf(cache)
    IN  (Len(t) \notin {6, 7} \/ ~PairsParse(t)) =>
          /\ response.status = "Ok"
          /\ TokenBlock(response.png, reqSize) = {<<GRAY, GRAY, GRAY, OPAQUE>>}

(* C18 amended: a token whose length is neither 6 nor 7 is drawn gray and *)
(* the pixels before it stay as drawn; a token of length 6 or 7 is drawn  *)
(* (opaque) when its three pairs parse as hexadecimal bytes, and makes    *)
(* the whole render fail with an error otherwise.                         *)
C18_Amended ==
  Answered =>
    LET t == TokenOf(cache)
        render == get_logo_png(cache, reqSize)
    IN  /\ (Len(t) \notin {6, 7} =>
               /\ response.status = "Ok"
               /\ TokenBlock(response.png, reqSize) = {<<GRAY, GRAY, GRAY, OPAQUE>>}
               /\ FirstBlock(response.png, reqSize) = {<<255, 0, 0, OPAQUE>>})
        /\ (Len(t) \in {6, 7} /\ PairsParse(t) =>
               /\ response.status = "Ok"
               /\ \A px \in TokenBlock(response.png, reqSize) : px[4] = OPAQUE
               /\ FirstBlock(response.png, reqSize) = {<<255, 0, 0, OPAQUE>>})
        /\ (Len(t) \in {6, 7} /\ ~PairsParse(t) =>
               /\ render.status = "Err"
               /\ response.status = "Panic"
               /\ response.png = NoPng)

(* a seven-character token with a non-hexadecimal pair failed a render at *)
(* a scale above the default                                              *)
C18_Witness ==
  /\ Answered
  /\ Len(TokenOf(cache)) = 7
  /\ TokenOf(cache)[1] = "#"
  /\ ~PairsParse(TokenOf(cache))
  /\ response.status = "Panic"
  /\ reqSize > 1

(* ------------------------------- C19 ---------------------------------- *)
(* C19: from the release of the write guard to the end of the step the    *)
(* cache holds the candidate that the step's comparison installed, the    *)
(* render reads that value, and the buffer handed to send_update and to   *)
(* save_logo is its render at the default scale.                          *)
C19_PayloadIsRenderOfInstalled ==
  [][ /\ (updPc \in {"Rendering", "RenderingLocked", "Broadcasting", "Sending",
                      "Persisting"} =>
             /\ casResult = "Changed"
             /\ cache = prevCand[1]
             /\ cache' = cache)
      /\ (updPc \in {"Broadcasting", "Sending", "Persisting"} =>
             /\ get_logo_png(prevCand[1], 1).status = "Ok"
             /\ logo_png = get_logo_png(prevCand[1], 1).png)
      /\ (cache' # cache => updPc = "Writing" /\ cacheReaders = {}
                              /\ cache' = prevCand[1])
      /\ (outbound' # outbound =>
             \E c \in DOMAIN connPc :
               outbound' = [outbound EXCEPT ![c] =
                              Append(@, get_logo_png(prevCand[1], 1).png)])
      /\ (history' # history =>
             history' = Append(history, get_logo_png(prevCand[1], 1).png)) ]_vars

(* a request rendered the installed value while the update thread's step  *)
(* was under way, and the step stored the same image                      *)
C19_Witness ==
  /\ updPc = "Idle"
  /\ casResult = "Changed"
  /\ cache = DRed
  /\ Len(history) = 1
  /\ response.status = "Ok"
  /\ reqSize = 1
  /\ history[1] = response.png
  /\ history[1].data # <<>>

(* ------------------------------- C20 ---------------------------------- *)
IsSuffix(p, q) ==
  Len(p) <= Len(q) /\ SubSeq(q, Len(q) - Len(p) + 1, Len(q)) = p
(* the payloads handed to send_update so far, in the order of the calls,  *)
(* as long as every save_logo has succeeded                               *)
Sent == IF updPc \in {"Sending", "Persisting"} THEN Append(history, logo_png) ELSE history
IsSegment(p, q) == \E k \in 0..Len(q) : IsSuffix(p, SubSeq(q, 1, k))

(* C20: a connection's queue only grows at its tail, by the render of the *)
(* value installed last; what it holds is a contiguous run of the         *)
(* payloads in the order their changes were installed, without repeats,   *)
(* and for a connection that is still registered with an open receiver it *)
(* is the run up to the latest payload.                                   *)
C20_PerSubscriberFifo ==
  [][ \A c \in DOMAIN connPc :
        /\ (outbound'[c] # outbound[c] =>
               /\ outbound'[c] = Append(outbound[c], get_logo_png(cache, 1).png)
               /\ Len(outbound'[c]) <= nBroadcast)
        /\ (\A i \in 1..(Len(outbound[c]) - 1) : outbound[c][i] # outbound[c][i + 1])
        /\ (Len(history) = nPersist =>
               /\ IsSegment(outbound[c], Sent)
               /\ (connPc[c] = "Listening" /\ rxOpen[c] /\ updPc = "Idle"
                      => IsSuffix(outbound[c], history))) ]_vars

(* a connection that stayed registered over two changes holds both        *)
(* payloads in the order of the history rows                              *)
C20_Witness ==
  /\ updPc = "Idle"
  /\ Len(history) = 2
  /\ history[1] # history[2]
  /\ \E c \in DOMAIN connPc :
        /\ connPc[c] = "Listening" /\ rxOpen[c]
        /\ outbound[c] = history

(* ------------------------------- C21 ---------------------------------- *)
(* the two locks with their waiters: the whole system with one websocket  *)
(* connection, whose unregister is split into the end of the stream and   *)
(* the removal that has to wait for the write guard                       *)
LockConns == {FIRST_LISTENER_ID}

(* listener_ws_rx.for_each(..) resolved: the .then closure is about to run *)
StreamEnd(c) ==
  /\ connPc[c] = "Listening"
  /\ connPc' = [connPc EXCEPT ![c] = "Closing"]
  /\ UNCHANGED <<cache, cacheReaders, updVars, lastLog, next_id, listeners,
                 regReaders, my_id, rxOpen, outbound, history, reqVars>>

(* LISTENERS.write().remove(&my_id) once the write guard is granted *)
Remove(c) ==
  /\ connPc[c] = "Closing"
  /\ regReaders = {}
  /\ listeners' = HashMapRemove(listeners, my_id[c])
  /\ rxOpen' = [rxOpen EXCEPT ![c] = FALSE]
  /\ connPc' = [connPc EXCEPT ![c] = "Gone"]
  /\ UNCHANGED <<cache, cacheReaders, updVars, lastLog, next_id, regReaders,
                 my_id, outbound, history, reqVars>>

InitLocks ==
  /\ cache = EmptyLogo
  /\ cacheReaders = {}
  /\ updPc = "Idle"
  /\ live_logo = EmptyLogo
  /\ logo_png = NoPng
  /\ prevCand = <<>>
  /\ casResult = "None"
  /\ nChanged = 0
  /\ nBroadcast = 0
  /\ nPersist = 0
  /\ todo = {}
  /\ lastLog = ""
  /\ next_id = FIRST_LISTENER_ID
  /\ listeners = <<>>
  /\ regReaders = {}
  /\ connPc = [c \in LockConns |-> "None"]
  /\ my_id = [c \in LockConns |-> 0]
  /\ rxOpen = [c \in LockConns |-> FALSE]
  /\ outbound = [c \in LockConns |-> <<>>]
  /\ history = <<>>
  /\ reqPc = "Idle"
  /\ reqSize = 1
  /\ response = NoResponse

NextLocks ==
  \/ NextUpdate
  \/ NextReqs
  \/ \E c \in LockConns : Connect(c)
  \/ \E c \in LockConns : Insert(c)
  \/ \E c \in LockConns : ForwardEnd(c)
  \/ \E c \in LockConns : StreamEnd(c)
  \/ \E c \in LockConns : Remove(c)

(* a guard holder runs on: the request's render returns, send_update's    *)
(* loop advances and returns (weak fairness); parking_lot's RwLock hands  *)
(* the lock to a parked writer even though readers keep arriving (strong  *)
(* fairness of the three write acquisitions).                             *)
(* The first conjunct is WF_vars(ReqEnd) written out: ReqEnd is enabled   *)
(* exactly when reqPc = "Rendering", and it is the only step that leaves  *)
(* that state.                                                            *)
FairLocks ==
  /\ []<>(reqPc # "Rendering")
  /\ WF_vars(\E id \in todo : SendOne(id))
  /\ WF_vars(SendEnd)
  /\ SF_vars(Replace)
  /\ \A c \in LockConns : SF_vars(Insert(c)) /\ SF_vars(Remove(c))

SpecLocks == InitLocks /\ [][NextLocks]_vars /\ FairLocks

(* C21: the update thread does not hold its read guard when it asks for   *)
(* the write guard and never holds a guard of LOGO_CACHE together with a  *)
(* guard of LISTENERS; the update thread waiting for the cache write      *)
(* guard and a connection waiting for the registry write guard (to insert *)
(* or to remove its sender) are eventually granted it.                    *)
C21_LockProgress ==
  /\ [](updPc = "Writing" => UPD \notin cacheReaders)
  /\ [](~(UPD \in cacheReaders /\ UPD \in regReaders))
  /\ (updPc = "Writing" ~> updPc = "Rendering")
  /\ \A c \in LockConns :
        /\ (connPc[c] = "Accepted" ~> connPc[c] = "Listening")
        /\ (connPc[c] = "Closing" ~> connPc[c] = "Gone")

(* the connection waits to remove its sender while the broadcast holds    *)
(* the registry and a request holds the cache                             *)
C21_Witness ==
  /\ updPc = "Sending"
  /\ UPD \in regReaders
  /\ REQ \in cacheReaders
  /\ \E c \in LockConns : connPc[c] = "Closing"

(* ------------------------------- C22 ---------------------------------- *)
(* the renderer on every position of the coordinate table: the cache      *)
(* holds a description whose only pixels are the upper four rows of one   *)
(* 8 x 8 panel, at panel panel_index of character char_index; requests    *)
(* render it at every scale                                               *)
PanelPixels == 8 * 8
TablePositions ==
  { <<char_index, panel_index>> \in (0..(Len(Coords) - 1)) \X (0..7) :
      panel_index < Len(Coords[char_index + 1]) }
HalfPanel == [i \in 1..(PanelPixels \div 2) |-> TokRed]
PanelLogo(char_index, panel_index) ==
  [ch \in 1..(char_index + 1) |->
     IF ch = char_index + 1
     THEN [p \in 1..(panel_index + 1) |-> IF p = panel_index + 1 THEN HalfPanel ELSE <<>>]
     ELSE <<>>]

InitOffsets ==
  /\ cache \in { PanelLogo(pos[1], pos[2]) : pos \in TablePositions }
  /\ cacheReaders = {}
  /\ updPc = "Idle"
  /\ live_logo = EmptyLogo
  /\ logo_png = NoPng
  /\ prevCand = <<>>
  /\ casResult = "None"
  /\ nChanged = 0
  /\ nBroadcast = 0
  /\ nPersist = 0
  /\ todo = {}
  /\ lastLog = ""
  /\ next_id = FIRST_LISTENER_ID
  /\ listeners = <<>>
  /\ regReaders = {}
  /\ connPc = [c \in Conns |-> "None"]
  /\ my_id = [c \in Conns |-> 0]
  /\ rxOpen = [c \in Conns |-> FALSE]
  /\ outbound = [c \in Conns |-> <<>>]
  /\ history = <<>>
  /\ reqPc = "Idle"
  /\ reqSize = 1
  /\ response = NoResponse

NextOffsets == NextReqs
SpecOffsets == InitOffsets /\ [][NextOffsets]_vars

(* the position the cached description draws at *)
CharIndexOf(logo) == Len(logo) - 1
PanelIndexOf(logo) == Len(logo[Len(logo)]) - 1
BufferLen(s) == (LOGO_WIDTH * s) * (LOGO_HEIGHT * s) * 4
BlankBuffer(s) == [status |-> "Ok", len |-> BufferLen(s), data |-> <<>>]

(* C22: at any position of the coordinate table and at any scale the     *)
(* render of the panel succeeds, every byte offset it wrote, plus 3, is   *)
(* below the length 152s * 32s * 4 of the buffer, and so is the offset of *)
(* every pixel_index 0..63 of that panel in the pixel loop.               *)
C22_OffsetsInBounds ==
  Answered =>
    /\ response.status = "Ok"
    /\ \A i \in DOMAIN response.png.data : i + 3 < BufferLen(reqSize)
    /\ \A pixel_index \in 0..(PanelPixels - 1) :
          LET st == WritePixel(BlankBuffer(reqSize), CharIndexOf(cache),
                               PanelIndexOf(cache), pixel_index, TokRed,
                               reqSize, LOGO_WIDTH * reqSize)
          IN  /\ st.status = "Ok"
              /\ \A i \in DOMAIN st.data : i + 3 < BufferLen(reqSize)

=============================================================================
